---- MODULE Spec2Model ----
(***************************************************************************)
(* A model of channel_merge.py: the filename clean-up and rename step, the *)
(* grouping of channel files by image number, the enumeration of r,g,b     *)
(* combinations, the stacking of the corrected planes and the naming and   *)
(* writing of the composites, as main() runs them on one directory.        *)
(*                                                                         *)
(* A Python str is modelled as a sequence of one-character strings, so the *)
(* string operations of the source (split, join, replace, the two regular  *)
(* expressions, lower, comparison) are computed as Python computes them.   *)
(***************************************************************************)
EXTENDS Integers, Sequences, FiniteSets, TLC

(***************************************************************************)
(* Characters                                                              *)
(***************************************************************************)

\* The printable ASCII characters in code order: ' ' (32) to '_' (95), and
\* 'a' (97) to '~' (126). Code 96 has no TLA+ string and is left out.
AsciiLow ==
  << " ", "!", "\"", "#", "$", "%", "&", "'", "(", ")", "*", "+", ",", "-", ".", "/",
     "0", "1", "2", "3", "4", "5", "6", "7", "8", "9", ":", ";", "<", "=", ">", "?",
     "@", "A", "B", "C", "D", "E", "F", "G", "H", "I", "J", "K", "L", "M", "N", "O",
     "P", "Q", "R", "S", "T", "U", "V", "W", "X", "Y", "Z", "[", "\\", "]", "^", "_" >>

AsciiHigh ==
  << "a", "b", "c", "d", "e", "f", "g", "h", "i", "j", "k", "l", "m", "n", "o",
     "p", "q", "r", "s", "t", "u", "v", "w", "x", "y", "z", "{", "|", "}", "~" >>

\* The control characters that separate words, in code order: tab (9), line
\* feed (10), vertical tab (11), form feed (12), carriage return (13). The
\* vertical tab has no escape in a TLA+ string and stands as the character
\* itself.
AsciiControl == << "\t", "\n", "", "\f", "\r" >>

\* ord(c) for a printable character or a separator.
Ord == [c \in {AsciiControl[i] : i \in DOMAIN AsciiControl}
             \cup {AsciiLow[i] : i \in DOMAIN AsciiLow}
             \cup {AsciiHigh[i] : i \in DOMAIN AsciiHigh} |->
          IF \E i \in DOMAIN AsciiControl : AsciiControl[i] = c
          THEN 8 + (CHOOSE i \in DOMAIN AsciiControl : AsciiControl[i] = c)
          ELSE IF \E i \in DOMAIN AsciiLow : AsciiLow[i] = c
          THEN 31 + (CHOOSE i \in DOMAIN AsciiLow : AsciiLow[i] = c)
          ELSE 96 + (CHOOSE i \in DOMAIN AsciiHigh : AsciiHigh[i] = c)]

\* The characters matched by \d.
Digits == {"0", "1", "2", "3", "4", "5", "6", "7", "8", "9"}

\* The separators of str.split() called without an argument: the space and
\* the codes 9 to 13.
Whitespace == {" "} \cup {AsciiControl[i] : i \in DOMAIN AsciiControl}

\* str.lower() on one character: 'A'..'Z' map to 'a'..'z', 32 codes up.
LowerChar(c) ==
  IF c \in DOMAIN Ord /\ Ord[c] >= Ord["A"] /\ Ord[c] <= Ord["Z"]
  THEN AsciiHigh[Ord[c] - Ord["A"] + 1]
  ELSE c

\* str.lower().
Lower(s) == [i \in DOMAIN s |-> LowerChar(s[i])]

(***************************************************************************)
(* Python string and list operations                                       *)
(***************************************************************************)

\* The marker a model operator returns where the Python expression raises
\* IndexError ('string index out of range' / 'list index out of range').
IndexError == << "IndexError" >>

\* s[i:] for a 1-based start.
From(s, i) == SubSeq(s, i, Len(s))

\* needle in s, for strings.
Contains(s, needle) ==
  \E i \in 1..(Len(s) - Len(needle) + 1) : SubSeq(s, i, i + Len(needle) - 1) = needle

\* s.find(needle) + 1, or 0 when needle does not occur.
Find(s, needle) ==
  IF Contains(s, needle)
  THEN CHOOSE i \in 1..(Len(s) - Len(needle) + 1) :
         /\ SubSeq(s, i, i + Len(needle) - 1) = needle
         /\ \A j \in 1..(i - 1) : SubSeq(s, j, j + Len(needle) - 1) # needle
  ELSE 0

\* s.split(sep) for a non-empty separator: the pieces between the
\* non-overlapping occurrences of sep, found left to right.
RECURSIVE Split(_, _)
Split(s, sep) ==
  LET i == Find(s, sep)
  IN IF i = 0 THEN << s >>
     ELSE << SubSeq(s, 1, i - 1) >> \o Split(From(s, i + Len(sep)), sep)

\* The length of the longest prefix of s whose characters are all outside set.
RECURSIVE RunOutside(_, _)
RunOutside(s, set) ==
  IF s = << >> \/ Head(s) \in set THEN 0 ELSE 1 + RunOutside(Tail(s), set)

\* s.split(): the maximal runs of non-whitespace characters.
RECURSIVE SplitWhitespace(_)
SplitWhitespace(s) ==
  IF s = << >> THEN << >>
  ELSE IF Head(s) \in Whitespace THEN SplitWhitespace(Tail(s))
  ELSE LET n == RunOutside(s, Whitespace)
       IN << SubSeq(s, 1, n) >> \o SplitWhitespace(From(s, n + 1))

\* sep.join(parts).
RECURSIVE Join(_, _)
Join(sep, parts) ==
  IF parts = << >> THEN << >>
  ELSE IF Len(parts) = 1 THEN parts[1]
  ELSE parts[1] \o sep \o Join(sep, Tail(parts))

\* parts[:-1].
ButLast(parts) == SubSeq(parts, 1, Len(parts) - 1)

\* s.replace(old, '') for a non-empty old: every non-overlapping occurrence,
\* found left to right, is removed.
Remove(s, old) == Join(<< >>, Split(s, old))

\* s.isdigit(): non-empty and digits only.
IsDigit(s) == s # << >> /\ \A i \in DOMAIN s : s[i] \in Digits

\* re.search('^\d+', s).group() : the longest run of digits s starts with
\* (<< >> when the search finds no match).
RECURSIVE LeadingDigits(_)
LeadingDigits(s) ==
  IF s = << >> \/ Head(s) \notin Digits THEN << >>
  ELSE << Head(s) >> \o LeadingDigits(Tail(s))

\* re.search('\d+$', s).group() : the longest run of digits s ends with
\* (<< >> when the search finds no match).
RECURSIVE TrailingDigits(_)
TrailingDigits(s) ==
  IF s = << >> \/ s[Len(s)] \notin Digits THEN << >>
  ELSE TrailingDigits(ButLast(s)) \o << s[Len(s)] >>

\* a < b for two strings: the first differing character decides, a proper
\* prefix is smaller.
RECURSIVE StrLess(_, _)
StrLess(a, b) ==
  IF b = << >> THEN FALSE
  ELSE IF a = << >> THEN TRUE
  ELSE IF Head(a) # Head(b) THEN Ord[Head(a)] < Ord[Head(b)]
  ELSE StrLess(Tail(a), Tail(b))

\* a < b for two lists of strings.
RECURSIVE ListLess(_, _)
ListLess(a, b) ==
  IF b = << >> THEN FALSE
  ELSE IF a = << >> THEN TRUE
  ELSE IF Head(a) # Head(b) THEN StrLess(Head(a), Head(b))
  ELSE ListLess(Tail(a), Tail(b))

\* The elements of a sequence.
Range(q) == {q[i] : i \in DOMAIN q}

\* sorted(set) for a set of strings.
RECURSIVE SortedStrings(_)
SortedStrings(S) ==
  IF S = {} THEN << >>
  ELSE LET m == CHOOSE x \in S : \A y \in S \ {x} : StrLess(x, y)
       IN << m >> \o SortedStrings(S \ {m})

\* [x for x in q if x in keep].
RECURSIVE Filter(_, _)
Filter(q, keep) ==
  IF q = << >> THEN << >>
  ELSE IF Head(q) \in keep THEN << Head(q) >> \o Filter(Tail(q), keep)
  ELSE Filter(Tail(q), keep)

\* sorted(q) for a list of strings (insertion sort; equal strings are the
\* same value, so stability does not show).
RECURSIVE InsertStr(_, _)
InsertStr(x, q) ==
  IF q = << >> THEN << x >>
  ELSE IF StrLess(Head(q), x) THEN << Head(q) >> \o InsertStr(x, Tail(q))
  ELSE << x >> \o q

RECURSIVE Sorted(_)
Sorted(q) == IF q = << >> THEN << >> ELSE InsertStr(Head(q), Sorted(Tail(q)))

\* list.sort() for a list of lists of strings.
RECURSIVE InsertList(_, _)
InsertList(x, q) ==
  IF q = << >> THEN << x >>
  ELSE IF ListLess(Head(q), x) THEN << Head(q) >> \o InsertList(x, Tail(q))
  ELSE << x >> \o q

RECURSIVE SortedLists(_)
SortedLists(q) == IF q = << >> THEN << >> ELSE InsertList(Head(q), SortedLists(Tail(q)))

\* q reversed.
Reverse(q) == [i \in DOMAIN q |-> q[Len(q) + 1 - i]]

\* str(n) for n >= 0.
DigitChars == << "0", "1", "2", "3", "4", "5", "6", "7", "8", "9" >>

RECURSIVE IntToStr(_)
IntToStr(n) ==
  IF n < 10 THEN << DigitChars[n + 1] >>
  ELSE IntToStr(n \div 10) \o << DigitChars[(n % 10) + 1] >>

(***************************************************************************)
(* cleanup_filenames: the pure part                                        *)
(***************************************************************************)

\* format_trailing_nums(s): the trailing number of the name is set off with
\* '-', then a leading token that starts with digits but is not all digits is
\* cut after the digits. IndexError where new[-1] is taken of an empty string.
format_trailing_nums(s) ==
  LET sp     == Join(<< "." >>, ButLast(Split(s, << "." >>)))
      endnum == TrailingDigits(sp)
      cut    == Join(endnum, ButLast(Split(sp, endnum)))
      strip  == IF cut[Len(cut)] = "-" THEN ButLast(cut) ELSE cut
      parts  == Split(s, << "." >>)
      ext    == << "." >> \o parts[Len(parts)]
      new    == IF endnum = << >> THEN s
                ELSE IF cut = << >> THEN IndexError
                ELSE Join(<< "-" >>, << strip, endnum >>) \o ext
      pfx    == Split(new, << "-" >>)[1]
      m      == LeadingDigits(pfx)
      mid    == Remove(pfx, m)
      end    == Join(<< "-" >>, Tail(Split(new, << "-" >>)))
  IN IF new = IndexError THEN IndexError
     ELSE IF ~IsDigit(pfx) /\ m # << >> THEN Join(<< "-" >>, << m, mid, end >>)
     ELSE new

\* The element format_filenames computes for one name: whitespace runs become
\* '-', then format_trailing_nums.
format_filenames(f) == format_trailing_nums(Join(<< "-" >>, SplitWhitespace(f)))

\* The list cleanup_filenames returns: the names it was given (the list
\* object glob returned, which rename() leaves as it was), without the ones
\* that contain '-bf', sorted.
cleanup_filenames(names) ==
  SortedStrings({f \in names : ~Contains(f, << "-", "b", "f" >>)})

(***************************************************************************)
(* group_images                                                            *)
(***************************************************************************)

\* [f for f in filenames if n + '-' in f]
FilesContaining(filenames, n) ==
  Filter(filenames, {f \in Range(filenames) : Contains(f, n \o << "-" >>)})

\* group_images(filenames): the image numbers are the tokens before the
\* first '-', sorted; one list per number; the lists are sorted among
\* themselves and zipped with the numbers.
group_images(filenames) ==
  LET nums     == SortedStrings({Split(f, << "-" >>)[1] : f \in Range(filenames)})
      lists    == [i \in DOMAIN nums |-> FilesContaining(filenames, nums[i])]
      channels == SortedLists(lists)
  IN [n \in Range(nums) |-> channels[CHOOSE i \in DOMAIN nums : nums[i] = n]]

(***************************************************************************)
(* channel_combos, tiffs_iterate_combos                                    *)
(***************************************************************************)

\* f.split('-')[1].lower()[0] as a one-character string; IndexError when f
\* has no second '-'-delimited token or an empty one.
first_letter(f) ==
  LET parts == Split(f, << "-" >>)
  IN IF Len(parts) < 2 THEN IndexError
     ELSE IF parts[2] = << >> THEN IndexError
     ELSE << LowerChar(parts[2][1]) >>

\* The three lists of the dict colors after the loop over files. The tests
\* c is 'r', c is 'g', c is 'b' compare one-character strings, of which
\* CPython 2 keeps a single object each: they hold exactly when c equals the
\* letter.
colors(files) ==
  [c \in {"r", "g", "b"} |-> Filter(files, {f \in Range(files) : first_letter(f) = << c >>})]

\* The orders in which colors.values() can list the three lists. The order
\* of a Python 2 dict is up to the interpreter: CPython 2.7 gives r, b, g for
\* this dict, an insertion-ordered build gives r, g, b.
ValuesOrders ==
  {o \in [1..3 -> {"r", "g", "b"}] : \A i, j \in 1..3 : i # j => o[i] # o[j]}

\* zip(a, b, c) in the place of itertools.product(a, b, c): the lists are
\* paired element by element.
product_zipped(a, b, c) ==
  [n \in {i \in DOMAIN a : i \in DOMAIN b /\ i \in DOMAIN c} |-> << a[n], b[n], c[n] >>]

\* itertools.product(a, b, c): the last list varies fastest.
product(a, b, c) ==
  [n \in 1..(Len(a) * Len(b) * Len(c)) |->
     << a[((n - 1) \div (Len(b) * Len(c))) + 1],
        b[(((n - 1) \div Len(c)) % Len(b)) + 1],
        c[((n - 1) % Len(c)) + 1] >>]

\* channel_combos(files) raises IndexError: some file has no second
\* '-'-delimited token to take a first letter from.
channel_combos_raises(files) ==
  \E f \in Range(files) : first_letter(f) = IndexError

\* channel_combos(files) where it returns, with order the order of
\* colors.values(): the product of the three colour lists, each tuple sorted
\* in reverse alphabetical order of the filenames.
channel_combos(files, order) ==
  LET cs     == colors(files)
      combos == product(cs[order[1]], cs[order[2]], cs[order[3]])
  IN [n \in DOMAIN combos |-> Reverse(Sorted(combos[n]))]

\* tiffs_iterate_combos(d) raises: one of its calls of channel_combos does.
tiffs_iterate_combos_raises(d) ==
  \E k \in DOMAIN d : channel_combos_raises(d[k])

\* tiffs_iterate_combos(d) where it returns: channel_combos for every image
\* number.
tiffs_iterate_combos(d, order) ==
  [k \in DOMAIN d |-> channel_combos(d[k], order)]

(***************************************************************************)
(* preproc_imgs, outfile_names                                             *)
(***************************************************************************)

\* The key with str(i) for the loop index i of get_uids, in the place of
\* str(i+1): the second combination gets '-1'.
uid_index_not_shifted(k, i) == IF i = 1 THEN k ELSE Join(<< "-" >>, << k, IntToStr(i - 1) >>)

\* The key get_uids gives the i-th (1-based) combination of image number k.
uid(k, i) == IF i = 1 THEN k ELSE Join(<< "-" >>, << k, IntToStr(i) >>)

\* get_uids(imgs): one entry per combination. The image numbers hold no '-'
\* (they are tokens before a first '-'), so no two entries share a key.
get_uids(imgs) ==
  LET entries == UNION {{<< k, i >> : i \in 1..Len(imgs[k])} : k \in DOMAIN imgs}
  IN [u \in {uid(e[1], e[2]) : e \in entries} |->
        LET e == CHOOSE e \in entries : uid(e[1], e[2]) = u
        IN imgs[e[1]][e[2]]]

\* numpy.atleast_3d on a shape.
atleast_3d(shape) ==
  IF Len(shape) = 0 THEN << 1, 1, 1 >>
  ELSE IF Len(shape) = 1 THEN << 1, shape[1], 1 >>
  ELSE IF Len(shape) = 2 THEN << shape[1], shape[2], 1 >>
  ELSE shape

\* numpy.dstack on three arrays, by their shapes: the arrays are made 3-d
\* and concatenated along the third axis, which raises ValueError unless
\* they agree in number of axes and in every other axis.
dstack_ok(shapes) ==
  \A i, j \in DOMAIN shapes :
    LET a == atleast_3d(shapes[i])
        b == atleast_3d(shapes[j])
    IN Len(a) = Len(b) /\ \A x \in DOMAIN a : x # 3 => a[x] = b[x]

\* The shape of numpy.dstack's result for three arrays that stack.
dstack(shapes) ==
  LET a == [i \in DOMAIN shapes |-> atleast_3d(shapes[i])]
  IN [x \in DOMAIN a[1] |-> IF x = 3 THEN a[1][3] + a[2][3] + a[3][3] ELSE a[1][x]]

\* The name outfile_names gives key k (suffix 'rgb', ext '.tif').
outfile_name(k) ==
  LET ks  == Split(k, << "-" >>)
      rgb == << "r", "g", "b" >>
      ext == << ".", "t", "i", "f" >>
  IN IF Len(ks) = 2 THEN Join(<< "-" >>, << ks[1], rgb, ks[Len(ks)] >>) \o ext
     ELSE Join(<< "-" >>, << k, rgb >>) \o ext

\* outfile_names(rgb): every key is replaced by its file name.
outfile_names(d) ==
  [n \in {outfile_name(k) : k \in DOMAIN d} |->
     d[CHOOSE k \in DOMAIN d : outfile_name(k) = n]]

(***************************************************************************)
(* The inputs of a run                                                     *)
(***************************************************************************)

\* The most files a directory holds.
MaxFiles == 4

Tif == << ".", "t", "i", "f" >>

\* The names a directory's *.tif files are drawn from.
Universe ==
  { << "0", "1", "-", "r" >> \o Tif,             \* 01-r.tif
    << "0", "1", "-", "g" >> \o Tif,             \* 01-g.tif
    << "0", "1", "-", "b" >> \o Tif,             \* 01-b.tif
    << "0", "1", "-", "b", "-", "2" >> \o Tif,   \* 01-b-2.tif
    << "0", "1", "-", "R" >> \o Tif,             \* 01-R.tif
    << "0", "1", "-", "b", "f" >> \o Tif,        \* 01-bf.tif
    << "0", "2", "-", "r" >> \o Tif,             \* 02-r.tif
    << "1", "0", "1", "-", "r" >> \o Tif,        \* 101-r.tif
    << "0", "1", " ", "r" >> \o Tif,             \* 01 r.tif
    << "0", "1", "-", "b", "2" >> \o Tif,        \* 01-b2.tif
    << "0", "1", "r" >> \o Tif,                  \* 01r.tif
    << "0", "1", "r", "2" >> \o Tif,             \* 01r2.tif
    << "0", "1", "r", "-", "2" >> \o Tif,        \* 01r-2.tif
    << "0", "1", "-", "-", "r" >> \o Tif,        \* 01--r.tif
    << "r" >> \o Tif,                            \* r.tif
    << "g" >> \o Tif,                            \* g.tif
    << "1" >> \o Tif }                           \* 1.tif

\* The most files a directory of repeat scans holds.
MaxScanFiles == 8

\* The names of a directory of repeat scans: image 01 with up to three blue
\* scans, image 02 with one scan per colour, and a name without image number.
ScanUniverse ==
  { << "0", "1", "-", "r" >> \o Tif,             \* 01-r.tif
    << "0", "1", "-", "g" >> \o Tif,             \* 01-g.tif
    << "0", "1", "-", "b" >> \o Tif,             \* 01-b.tif
    << "0", "1", "-", "b", "-", "2" >> \o Tif,   \* 01-b-2.tif
    << "0", "1", "-", "b", "-", "3" >> \o Tif,   \* 01-b-3.tif
    << "0", "2", "-", "r" >> \o Tif,             \* 02-r.tif
    << "0", "2", "-", "g" >> \o Tif,             \* 02-g.tif
    << "0", "2", "-", "b" >> \o Tif,             \* 02-b.tif
    << "r" >> \o Tif }                           \* r.tif

\* The shapes a decoded channel file can have: two greyscale sizes and a
\* three-sample image.
Shapes == { << 10, 10 >>, << 12, 10 >>, << 10, 10, 3 >> }

(***************************************************************************)
(* The run of main() on one directory                                      *)
(***************************************************************************)

VARIABLES
  pc,         \* where main() is: "start", "rename", "cleaned", "grouped",
              \* "combined", "preproc", "write", "done", "crashed"
  disk,       \* the input directory: name -> content, a content being
              \* identified by the name its file had when the run began
  globbed,    \* the names glob("*.tif") returned
  todo,       \* the names the rename loop has still to visit
  filenames,  \* the list cleanup_filenames returned
  channels,   \* the dict group_images returned
  imgs,       \* the dict tiffs_iterate_combos returned
  uids,       \* the dict get_uids returned
  pending,    \* the keys the running loop has still to visit
  rgb,        \* the dict of composites: key -> [files, shape]
  shapeOf,    \* content -> shape, for the contents decoded so far
  reads,      \* the names tiffread opened
  printed,    \* what the run printed
  written     \* the output directory: name -> composite

vars == << pc, disk, globbed, todo, filenames, channels, imgs, uids, pending,
           rgb, shapeOf, reads, printed, written >>

\* A printed line: its kind, the key and shapes it names, the files it names.
Line(kind, key, shapes, names) ==
  [kind |-> kind, key |-> key, shapes |-> shapes, names |-> names]

\* main is started in a directory that holds at most max files, named from U.
StartIn(U, max) ==
  /\ \E D \in SUBSET U :
       /\ Cardinality(D) <= max
       /\ disk = [f \in D |-> f]
  /\ pc = "start"
  /\ globbed = {}
  /\ todo = {}
  /\ filenames = << >>
  /\ channels = << >>
  /\ imgs = << >>
  /\ uids = << >>
  /\ pending = {}
  /\ rgb = << >>
  /\ shapeOf = << >>
  /\ reads = {}
  /\ printed = {}
  /\ written = << >>

Init == StartIn(Universe, MaxFiles)

\* The start in a directory of repeat scans of two images.
InitScans == StartIn(ScanUniverse, MaxScanFiles)

\* main: glob("*.tif"), then cleanup_filenames up to the rename loop:
\* format_filenames builds the whole list of new names before the first
\* rename, so an IndexError of format_trailing_nums ends the run here.
Glob ==
  /\ pc = "start"
  /\ globbed' = DOMAIN disk
  /\ IF \E f \in DOMAIN disk : format_filenames(f) = IndexError
     THEN /\ pc' = "crashed"
          /\ printed' = printed \cup {Line("IndexError", << >>, << >>, {})}
          /\ UNCHANGED << todo, filenames >>
     ELSE /\ printed' = printed
          /\ todo' = DOMAIN disk
          /\ pc' = IF DOMAIN disk = {} THEN "cleaned" ELSE "rename"
          /\ filenames' = IF DOMAIN disk = {} THEN cleanup_filenames({}) ELSE filenames
  /\ UNCHANGED << disk, channels, imgs, uids, pending, rgb, shapeOf, reads, written >>

\* os.rename(old, new) on a POSIX system: the content of old is under new
\* afterwards, whatever new named before; old = new changes nothing. (Every
\* name is visited once and only its own turn removes it, so old exists.)
os_rename(d, old, new) ==
  [f \in (DOMAIN d \ {old}) \cup {new} |-> IF f = new THEN d[old] ELSE d[f]]

\* One turn of the loop of rename(): glob returns the names in no particular
\* order, so any name not yet visited can be the next. After the last turn
\* cleanup_filenames filters and sorts the list and returns.
Rename(old) ==
  /\ pc = "rename"
  /\ old \in todo
  /\ disk' = os_rename(disk, old, format_filenames(old))
  /\ todo' = todo \ {old}
  /\ IF todo' = {}
     THEN /\ filenames' = cleanup_filenames(globbed)
          /\ pc' = "cleaned"
     ELSE UNCHANGED << filenames, pc >>
  /\ UNCHANGED << globbed, channels, imgs, uids, pending, rgb, shapeOf, reads,
                  printed, written >>

\* main: channels = group_images(filenames)
GroupImages ==
  /\ pc = "cleaned"
  /\ channels' = group_images(filenames)
  /\ pc' = "grouped"
  /\ UNCHANGED << disk, globbed, todo, filenames, imgs, uids, pending, rgb,
                  shapeOf, reads, printed, written >>

\* main: print('Processing images...'); imgs = tiffs_iterate_combos(channels)
IterateCombos ==
  /\ pc = "grouped"
  /\ printed' = printed \cup
                   {Line("Processing", << >>, << >>, {})} \cup
                   (IF tiffs_iterate_combos_raises(channels)
                    THEN {Line("IndexError", << >>, << >>, {})} ELSE {})
  /\ IF tiffs_iterate_combos_raises(channels)
     THEN /\ pc' = "crashed"
          /\ imgs' = imgs
     ELSE /\ pc' = "combined"
          /\ \E order \in ValuesOrders : imgs' = tiffs_iterate_combos(channels, order)
  /\ UNCHANGED << disk, globbed, todo, filenames, channels, uids, pending, rgb,
                  shapeOf, reads, written >>

\* preproc_imgs up to its loop: uids = get_uids(imgs); rgb = {}
GetUids ==
  /\ pc = "combined"
  /\ uids' = get_uids(imgs)
  /\ pending' = DOMAIN uids'
  /\ rgb' = << >>
  /\ pc' = "preproc"
  /\ UNCHANGED << disk, globbed, todo, filenames, channels, imgs, shapeOf, reads,
                  printed, written >>

\* One turn of the loop of preproc_imgs, for key u (a dict is iterated in no
\* particular order). tiffread opens and decodes the three files in turn;
\* opening a name that is not in the directory raises and ends the run, the
\* files before it having been decoded. illum_correction
\* keeps the shape of its argument. The three planes are stacked, or the
\* ValueError of dstack is caught and the key and the three shapes printed.
Preproc(u) ==
  /\ pc = "preproc"
  /\ u \in pending
  /\ LET imls    == uids[u]
         missing == {i \in DOMAIN imls : imls[i] \notin DOMAIN disk}
     IN IF missing # {}
        THEN LET m   == CHOOSE i \in missing : \A j \in missing : i <= j
                 new == {disk[imls[i]] : i \in 1..(m - 1)} \ DOMAIN shapeOf
             IN /\ pc' = "crashed"
                /\ reads' = reads \cup {imls[i] : i \in 1..(m - 1)}
                /\ \E sh \in [new -> Shapes] :
                     shapeOf' = [c \in DOMAIN shapeOf \cup new |->
                                   IF c \in new THEN sh[c] ELSE shapeOf[c]]
                /\ printed' = printed \cup {Line("TypeError", << >>, << >>, {imls[m]})}
                /\ UNCHANGED << pending, rgb >>
        ELSE LET new == {disk[imls[i]] : i \in DOMAIN imls} \ DOMAIN shapeOf
             IN \E sh \in [new -> Shapes] :
                  LET known  == [c \in DOMAIN shapeOf \cup new |->
                                   IF c \in new THEN sh[c] ELSE shapeOf[c]]
                      shapes == [i \in DOMAIN imls |-> known[disk[imls[i]]]]
                  IN /\ shapeOf' = known
                     /\ reads' = reads \cup Range(imls)
                     /\ pending' = pending \ {u}
                     /\ pc' = pc
                     /\ IF dstack_ok(shapes)
                        THEN /\ rgb' = [k \in DOMAIN rgb \cup {u} |->
                                          IF k = u
                                          THEN [files |-> imls, shape |-> dstack(shapes)]
                                          ELSE rgb[k]]
                             /\ printed' = printed
                        ELSE /\ rgb' = rgb
                             /\ printed' = printed \cup {Line("Skipping", u, shapes, {})}
  /\ UNCHANGED << disk, globbed, todo, filenames, channels, imgs, uids, written >>

\* main after the loop of preproc_imgs: rgb = outfile_names(rgb), the
\* 'Writing images to' line, the output directory.
OutfileNames ==
  /\ pc = "preproc"
  /\ pending = {}
  /\ rgb' = outfile_names(rgb)
  /\ pending' = DOMAIN rgb'
  /\ printed' = printed \cup {Line("Writing", << >>, << >>, {})}
  /\ pc' = IF DOMAIN rgb' = {} THEN "done" ELSE "write"
  /\ UNCHANGED << disk, globbed, todo, filenames, channels, imgs, uids, shapeOf,
                  reads, written >>

\* One turn of the loop of main that writes the composites.
Tiffwrite(fname) ==
  /\ pc = "write"
  /\ fname \in pending
  /\ written' = [n \in DOMAIN written \cup {fname} |->
                   IF n = fname THEN rgb[fname] ELSE written[n]]
  /\ pending' = pending \ {fname}
  /\ pc' = IF pending' = {} THEN "done" ELSE "write"
  /\ UNCHANGED << disk, globbed, todo, filenames, channels, imgs, uids, rgb,
                  shapeOf, reads, printed >>

Next ==
  \/ Glob
  \/ \E old \in todo : Rename(old)
  \/ GroupImages
  \/ IterateCombos
  \/ GetUids
  \/ \E u \in pending : Preproc(u)
  \/ OutfileNames
  \/ \E fname \in pending : Tiffwrite(fname)

Spec == Init /\ [][Next]_vars

\* The runs on the directories of repeat scans.
SpecScans == InitScans /\ [][Next]_vars

(***************************************************************************)
(* Vocabulary of the properties                                            *)
(***************************************************************************)

\* c is an ASCII letter.
IsLetter(c) ==
  /\ c \in DOMAIN Ord
  /\ \/ Ord[c] >= Ord["A"] /\ Ord[c] <= Ord["Z"]
     \/ Ord[c] >= Ord["a"] /\ Ord[c] <= Ord["z"]

\* The files of a list whose channel-token starts with letter c or its capital.
OfColour(files, c) == {f \in Range(files) : first_letter(f) = << c >>}

\* f has no second '-'-delimited token.
NoChannelToken(f) == Len(Split(f, << "-" >>)) < 2

\* The globbed names that have no channel-token, as they are and as renamed.
Unclassifiable ==
  {f \in globbed : /\ NoChannelToken(f)
                   /\ format_filenames(f) # IndexError
                   /\ NoChannelToken(format_filenames(f))}

\* The shapes of the three planes of a combination, once they are decoded.
PlaneShapes(combo) == [i \in DOMAIN combo |-> shapeOf[disk[combo[i]]]]

\* The three planes of a combination have one and the same shape.
SameShape(combo) ==
  \A i, j \in DOMAIN combo : PlaneShapes(combo)[i] = PlaneShapes(combo)[j]

\* The output name the specification gives the i-th combination of image k.
ExpectedName(k, i) ==
  IF i = 1 THEN k \o << "-", "r", "g", "b" >> \o Tif
  ELSE k \o << "-", "r", "g", "b", "-" >> \o IntToStr(i) \o Tif

(***************************************************************************)
(* Properties                                                              *)
(***************************************************************************)

\* C1: the rename step never overwrites: a rename whose target already names
\* a file is skipped, so every content the directory held when the run began
\* is still in it, and the number of files is what it was.
C1_RenameNeverOverwrites ==
  pc # "start" =>
    /\ {disk[f] : f \in DOMAIN disk} = globbed
    /\ Cardinality(DOMAIN disk) = Cardinality(globbed)

\* C2: group_images stores under key k exactly the filenames whose token
\* before the first '-' equals k.
C2_GroupsByExactId ==
  \A k \in DOMAIN channels :
    Range(channels[k]) = {f \in Range(filenames) : Split(f, << "-" >>)[1] = k}

\* C3: every filename cleanup_filenames returns is a normalized name and
\* names a file of the directory as the rename step left it.
C3_ReturnsRenamedNames ==
  \A i \in DOMAIN filenames :
    /\ filenames[i] \in DOMAIN disk
    /\ filenames[i] \in {format_filenames(g) : g \in globbed}

\* C4: for every image group the combinations are as many as red files times
\* green files times blue files, each holds one file of each colour, no two
\* are the same triple; a group with a colour missing yields no output file,
\* and every other combination whose planes stack has its output file.
C4_CombinationsAreProduct ==
  \A k \in DOMAIN imgs :
    LET R == OfColour(channels[k], "r")
        G == OfColour(channels[k], "g")
        B == OfColour(channels[k], "b")
        n == Cardinality(R) * Cardinality(G) * Cardinality(B)
    IN /\ Len(imgs[k]) = n
       /\ \A i \in DOMAIN imgs[k] :
            /\ Len(imgs[k][i]) = 3
            /\ Cardinality(Range(imgs[k][i]) \cap R) = 1
            /\ Cardinality(Range(imgs[k][i]) \cap G) = 1
            /\ Cardinality(Range(imgs[k][i]) \cap B) = 1
       /\ \A i, j \in DOMAIN imgs[k] :
            i # j => Range(imgs[k][i]) # Range(imgs[k][j])
       /\ pc = "done" =>
            /\ n = 0 => \A name \in DOMAIN written : Split(name, << "-" >>)[1] # k
            /\ \A i \in 1..n :
                 dstack_ok(PlaneShapes(imgs[k][i])) => ExpectedName(k, i) \in DOMAIN written

\* A finished run with an image number that has files but lacks a colour,
\* and so no combination, beside the output of a complete one.
C4_Witness ==
  /\ pc = "done"
  /\ globbed = {<< "0", "1", "-", "r" >> \o Tif, << "0", "1", "-", "g" >> \o Tif,
                << "0", "1", "-", "b" >> \o Tif, << "0", "2", "-", "r" >> \o Tif}
  /\ \E k \in DOMAIN imgs : channels[k] # << >> /\ imgs[k] = << >>
  /\ DOMAIN written = {<< "0", "1", "-", "r", "g", "b" >> \o Tif}

\* C5: every combination is in (red, green, blue) order by the first letter
\* of the channel-token of its files, whatever the case of that letter.
C5_CombinationsInRGBOrder ==
  \A k \in DOMAIN imgs :
    \A i \in DOMAIN imgs[k] :
      /\ first_letter(imgs[k][i][1]) = << "r" >>
      /\ first_letter(imgs[k][i][2]) = << "g" >>
      /\ first_letter(imgs[k][i][3]) = << "b" >>

\* C6: an image number with n >= 1 combinations whose planes all share one
\* shape has exactly n outputs: <id>-rgb.tif for the first combination,
\* <id>-rgb-<i>.tif for the i-th, each holding its own combination, and no
\* two combinations of the run share an output name.
C6_OutputNames ==
  pc = "done" =>
    /\ \A k \in DOMAIN imgs :
         LET n == Len(imgs[k])
         IN (n >= 1 /\ \A i \in 1..n : SameShape(imgs[k][i])) =>
              /\ {name \in DOMAIN written : Split(name, << "-" >>)[1] = k}
                   = {ExpectedName(k, i) : i \in 1..n}
              /\ Cardinality({ExpectedName(k, i) : i \in 1..n}) = n
              /\ \A i \in 1..n : written[ExpectedName(k, i)].files = imgs[k][i]
    /\ \A u1, u2 \in DOMAIN uids :
         outfile_name(u1) = outfile_name(u2) => u1 = u2
    /\ \A u \in DOMAIN uids :
         outfile_name(u) \in DOMAIN written => written[outfile_name(u)].files = uids[u]

\* A finished run on one red, one green and three blue files of image 01 and
\* a red, a green and a blue file of image 02: image 01 has its three outputs
\* 01-rgb.tif, 01-rgb-2.tif, 01-rgb-3.tif beside the output 02-rgb.tif of
\* image 02, each holding a combination of its own image.
C6_Witness ==
  /\ pc = "done"
  /\ DOMAIN channels = {<< "0", "1" >>, << "0", "2" >>}
  /\ Len(imgs[<< "0", "1" >>]) = 3
  /\ Len(imgs[<< "0", "2" >>]) = 1
  /\ DOMAIN written = {<< "0", "1", "-", "r", "g", "b" >> \o Tif,
                       << "0", "1", "-", "r", "g", "b", "-", "2" >> \o Tif,
                       << "0", "1", "-", "r", "g", "b", "-", "3" >> \o Tif,
                       << "0", "2", "-", "r", "g", "b" >> \o Tif}
  /\ \A name \in DOMAIN written :
       \A i \in 1..3 : Split(written[name].files[i], << "-" >>)[1] = Split(name, << "-" >>)[1]

\* C7: when several names have no channel-token, the run reports all of them
\* in one listing: a run that has come to its end has printed a line that
\* names every one of them.
C7_UnclassifiableListedTogether ==
  (pc = "done" /\ Cardinality(Unclassifiable) >= 2) =>
    \E l \in printed : Unclassifiable \subseteq l.names

\* C8: in a run whose directory holds a name without channel-token no image
\* file is read and no output is written.
C8_AbortsBeforeImageIO ==
  Unclassifiable # {} => (reads = {} /\ DOMAIN written = {})

\* C9: in preproc_imgs a combination whose three planes do not all have the
\* same shape gets no composite and a diagnostic with its key and the three
\* shapes; a combination whose planes share a shape gets its composite.
C9_MismatchedShapesSkipped ==
  pc = "preproc" =>
    \A u \in DOMAIN uids \ pending :
      IF SameShape(uids[u])
      THEN u \in DOMAIN rgb
      ELSE /\ u \notin DOMAIN rgb
           /\ Line("Skipping", u, PlaneShapes(uids[u]), {}) \in printed

\* C10: a name whose leading token is digits directly followed by letters is
\* normalized to <id>-<letters>[-<scan>].<ext>: the first token is the digit
\* run, the second starts with the letters, and the extension still ends it.
C10_DigitsLettersNormalized ==
  \A f \in globbed :
    LET parts == Split(f, << "." >>)
        ext   == << "." >> \o parts[Len(parts)]
        lead  == Split(Join(<< "." >>, ButLast(parts)), << "-" >>)[1]
        id    == LeadingDigits(lead)
        rest  == From(lead, Len(id) + 1)
        word  == SubSeq(rest, 1, RunOutside(rest, Digits))
        new   == format_filenames(f)
        toks  == Split(new, << "-" >>)
    IN (/\ Len(parts) >= 2
        /\ id # << >>
        /\ word # << >>
        /\ \A i \in DOMAIN word : IsLetter(word[i])
        /\ new # IndexError) =>
         /\ Len(toks) \in {2, 3}
         /\ toks[1] = id
         /\ SubSeq(toks[2], 1, Len(word)) = word
         /\ Len(new) >= Len(ext)
         /\ From(new, Len(new) - Len(ext) + 1) = ext

====
